---- MODULE Spec2Model ----
(***************************************************************************)
(* Model of the decision-and-simulation engine of src/ai/agent.py:         *)
(* sequence windowing (preprocess_data), signal generation (predict), the  *)
(* live position step (execute_strategy) and the backtest loop (evaluate); *)
(* and of persistence (train, save_model, load_model, to_dict, from_dict)  *)
(* with the caller-facing operations of src/scripts (create_agent,         *)
(* train_agent, predict, execute_strategy).                                *)
(*                                                                         *)
(* Numbers that the code holds in floats are modelled as exact rationals   *)
(* <<n, d>> (d > 0, lowest terms), extended with the three IEEE specials   *)
(* the code can produce by dividing by a numpy zero: <<1, 0>> = +inf,      *)
(* <<-1, 0>> = -inf, <<0, 0>> = nan.  Rounding is not modelled.            *)
(***************************************************************************)
EXTENDS Integers, Sequences, FiniteSets, TLC

VARIABLES
    agent,      \* the AIAgent object: risk_level, trained, model, performance_metrics
    balance,    \* the balance the caller holds and passes to the next live step
    position,   \* the position object the caller holds: <<>> is None, <<dict>> a dict
    pred,       \* what the last call of predict returned (<<>> before any / on error)
    last,       \* what the last call of execute_strategy did and returned
    steps,      \* number of live calls made so far
    win,        \* outcome of the last windowing stage
    bt,         \* the backtest run of evaluate: loop position and locals
    series,     \* the bars of the table last traded on, in timestamp order (for reference)
    store,      \* the model directory: what is persisted under each agent id
    out         \* what the last caller-facing operation returned

vars == <<agent, balance, position, pred, last, steps, win, bt, series, store, out>>

-----------------------------------------------------------------------------
(* Bounds of the model *)

MaxSteps == 3       \* live calls per behaviour
MaxTail == 3        \* bars after the first sequence_length bars of a series
MaxBars == 4        \* bars of a series handed to the windowing stage alone
MaxLen == 3         \* window lengths tried on the windowing stage alone

(* Program constants *)

sequence_length == 60
initial_balance == 10000

-----------------------------------------------------------------------------
(* Exact arithmetic with the IEEE specials *)

Sign(x) == IF x > 0 THEN 1 ELSE IF x < 0 THEN -1 ELSE 0

AbsI(x) == IF x < 0 THEN -x ELSE x

RECURSIVE GCD(_, _)
GCD(a, b) == IF b = 0 THEN a ELSE GCD(b, a % b)

Norm(n, d) ==
    IF d = 0 THEN <<Sign(n), 0>>
    ELSE LET s == IF d < 0 THEN -1 ELSE 1
             g == GCD(AbsI(n), AbsI(d))
         IN  <<(s * n) \div g, (s * d) \div g>>

R(n) == <<n, 1>>

Frac(n, d) == Norm(n, d)

NaN == <<0, 0>>

PosInf == <<1, 0>>

IsFinite(x) == x[2] # 0

IsNaN(x) == x = NaN

Neg(x) == <<-x[1], x[2]>>

Add(x, y) ==
    IF x[2] = 0 /\ y[2] = 0
    THEN (IF x = y THEN x ELSE NaN)
    ELSE Norm(x[1] * y[2] + y[1] * x[2], x[2] * y[2])

Sub(x, y) == Add(x, Neg(y))

Mul(x, y) == Norm(x[1] * y[1], x[2] * y[2])

Div(x, y) == Norm(x[1] * y[2], x[2] * y[1])

Lt(x, y) ==
    /\ ~IsNaN(x)
    /\ ~IsNaN(y)
    /\ IF x[2] = 0 /\ y[2] = 0 THEN x[1] < y[1]
       ELSE x[1] * y[2] < y[1] * x[2]

Gt(x, y) == Lt(y, x)

Le(x, y) == Lt(x, y) \/ (x = y /\ ~IsNaN(x))

AbsR(x) == <<AbsI(x[1]), x[2]>>

Half == Frac(1, 2)

Tenth == Frac(1, 10)

-----------------------------------------------------------------------------
(* 0-based indexing, as in the source *)

At(s, i) == s[i + 1]

Slice(s, lo, hi) == SubSeq(s, lo + 1, hi)

Range(s) == {s[k] : k \in 1..Len(s)}

Last(s) == s[Len(s)]

Max2(a, b) == IF a > b THEN a ELSE b

-----------------------------------------------------------------------------
(* Market data: a table of OHLCV rows, in the row order the caller gave *)

Bar(t, o, c) ==
    [timestamp |-> t, open |-> o, high |-> Max2(o, c),
     low |-> IF o < c THEN o ELSE c, close |-> c, volume |-> 1]

(* data.sort_values('timestamp'): row j goes to the place given by the     *)
(* number of rows that sort before it.                                     *)
sort_values(data) ==
    LET n == Len(data)
        rank == [j \in 1..n |->
                    Cardinality({i \in 1..n :
                        \/ data[i].timestamp < data[j].timestamp
                        \/ (data[i].timestamp = data[j].timestamp /\ i < j)})] \o <<>>
    IN  [k \in 1..n |-> data[CHOOSE j \in 1..n : rank[j] = k - 1]] \o <<>>

(* data[['open', 'high', 'low', 'close', 'volume']].values *)
FeatureRow(b) == <<b.open, b.high, b.low, b.close, b.volume>>

Column(features, j) == {features[k][j] : k \in 1..Len(features)}

ColMin(features, j) ==
    LET col == Column(features, j) IN CHOOSE m \in col : \A x \in col : m <= x

ColMax(features, j) ==
    LET col == Column(features, j) IN CHOOSE m \in col : \A x \in col : m >= x

(* MinMaxScaler(feature_range=(0, 1)).fit_transform: per column            *)
(* (x - min) / (max - min), a constant column scaling to 0.                *)
ScaleValue(x, mn, mx) == IF mx = mn THEN R(x - mn) ELSE Frac(x - mn, mx - mn)

fit_transform(features) ==
    LET mins == <<ColMin(features, 1), ColMin(features, 2), ColMin(features, 3),
                  ColMin(features, 4), ColMin(features, 5)>>
        maxs == <<ColMax(features, 1), ColMax(features, 2), ColMax(features, 3),
                  ColMax(features, 4), ColMax(features, 5)>>
    IN  [k \in 1..Len(features) |->
            [j \in 1..5 |-> ScaleValue(features[k][j], mins[j], maxs[j])]] \o <<>>

(* price_change with >= in place of > *)
price_change_ge(features, i, seq_len) ==
    IF At(features, i + seq_len)[4] >= At(features, i + seq_len - 1)[4] THEN 1 ELSE 0

(* The label of the window that starts at 0-based row i: 1 if the close    *)
(* right after the window is above the last close inside it.               *)
price_change(features, i, seq_len) ==
    IF At(features, i + seq_len)[4] > At(features, i + seq_len - 1)[4] THEN 1 ELSE 0

(* WindowRange that stops one window early *)
WindowRange_short(n, seq_len) == IF n - seq_len - 1 > 0 THEN 0..(n - seq_len - 2) ELSE {}

(* range(len(scaled_features) - sequence_length) *)
WindowRange(n, seq_len) == IF n - seq_len > 0 THEN 0..(n - seq_len - 1) ELSE {}

preprocess_data(data, seq_len) ==
    LET sorted == sort_values(data)
        features == [k \in 1..Len(sorted) |-> FeatureRow(sorted[k])] \o <<>>
        scaled_features == fit_transform(features)
        idx == WindowRange(Len(scaled_features), seq_len)
    IN  [X |-> [w \in 1..Cardinality(idx) |-> Slice(scaled_features, w - 1, w - 1 + seq_len)],
         y |-> [w \in 1..Cardinality(idx) |-> price_change(features, w - 1, seq_len)]]

-----------------------------------------------------------------------------
(* Market data offered to the operations *)

(* close prices; the code reads them unchecked, so 0 and a negative are in *)
PriceSet == {100, 120, 0, -100}

(* the first sequence_length rows of every series *)
Filler == [k \in 1..sequence_length |-> Bar(k, 100, 100)]

(* a series of sequence_length + Len(closes) rows in timestamp order *)
Series(closes) ==
    Filler \o [k \in 1..Len(closes) |-> Bar(sequence_length + k, 100, closes[k])]

(* the same rows with the newest one first *)
NewestFirst(data) == <<Last(data)>> \o SubSeq(data, 1, Len(data) - 1)

LiveData ==
    {Filler} \cup {Series(<<c>>) : c \in PriceSet} \cup {NewestFirst(Series(<<120>>))}

(* close prices of the bars a backtest trades at *)
EvalPrices == {80, 100, 120}

EvalSeries == {Series(cl) : cl \in UNION {[1..n -> EvalPrices] : n \in 1..MaxTail}}

(* a table whose last two rows have changed places *)
LastTwoSwapped(data) ==
    SubSeq(data, 1, Len(data) - 2) \o <<data[Len(data)], data[Len(data) - 1]>>

EvalData ==
    {Filler} \cup EvalSeries \cup {NewestFirst(d) : d \in EvalSeries}
        \cup {LastTwoSwapped(d) : d \in {e \in EvalSeries : Len(e) = sequence_length + 2}}

(* a table without the close column *)
NoCloseColumn ==
    <<[timestamp |-> 1, open |-> 100, high |-> 100, low |-> 100, volume |-> 1]>>

(* a series long enough for its last fifth to hold a window: five times    *)
(* sequence_length bars and one more                                       *)
LongSeries(c) ==
    [k \in 1..5 * sequence_length |-> Bar(k, 100, 100)]
        \o <<Bar(5 * sequence_length + 1, 100, c)>>

(* validation_data = training_data.iloc[int(len(training_data) * 0.8):] *)
validation_data(training_data) ==
    SubSeq(training_data, (Len(training_data) * 4) \div 5 + 1, Len(training_data))

(* the tables offered for training *)
TrainData ==
    {Filler, Series(<<120>>)} \cup {LongSeries(c) : c \in EvalPrices}
        \cup {NewestFirst(LongSeries(120))}

ValidationData == {validation_data(sort_values(d)) : d \in TrainData}

AllData == LiveData \cup EvalData \cup TrainData \cup ValidationData

(* the rows a table is looked up by: the first one and the last ones *)
Key(data) == <<data[1]>> \o SubSeq(data, Len(data) - MaxTail, Len(data))

(* preprocess_data with the default sequence_length, worked out once per   *)
(* table offered                                                           *)
Preprocessed ==
    {<<Key(d), d, preprocess_data(d, sequence_length)>> : d \in AllData}

preprocess_default(data) ==
    LET key == Key(data)
    IN  (CHOOSE e \in Preprocessed : e[1] = key /\ e[2] = data)[3]

(* the rows of each table offered, in timestamp order *)
Ordered == {<<Key(d), d, sort_values(d)>> : d \in AllData}

TimeOrdered(data) ==
    LET key == Key(data)
    IN  (CHOOSE e \in Ordered : e[1] = key /\ e[2] = data)[3]

-----------------------------------------------------------------------------
(* Signal generation: AIAgent.predict *)

None == <<>>

(* signal_of with the two comparisons made non-strict *)
signal_of_nonstrict(latest_pred, risk_level) ==
    IF Le(Add(Half, Mul(Tenth, risk_level)), latest_pred) THEN "buy"
    ELSE IF Le(latest_pred, Sub(Half, Mul(Tenth, risk_level))) THEN "sell"
    ELSE "hold"

(* 'buy' if latest_pred > 0.5 + 0.1 * risk_level, 'sell' if below          *)
(* 0.5 - 0.1 * risk_level, else 'hold'                                     *)
signal_of(latest_pred, risk_level) ==
    IF Gt(latest_pred, Add(Half, Mul(Tenth, risk_level))) THEN "buy"
    ELSE IF Lt(latest_pred, Sub(Half, Mul(Tenth, risk_level))) THEN "sell"
    ELSE "hold"

(* confidence_of without the abs() *)
confidence_of_signed(latest_pred) == Mul(Sub(latest_pred, Half), R(2))

(* abs(latest_pred - 0.5) * 2 *)
confidence_of(latest_pred) == Mul(AbsR(Sub(latest_pred, Half)), R(2))

Raised(msg) == [ok |-> FALSE, error |-> msg]

(* if len(X) == 0: raise ValueError("Not enough data ...") *)
NotEnoughData(X) == Len(X) = 0

(* if not self.trained or self.model is None: raise ValueError(...) *)
ModelNotTrained(ag) == ~ag.trained \/ ~ag.model

(* the columns preprocess_data selects; a table without one of them makes  *)
(* it raise KeyError                                                       *)
RequiredColumns == {"timestamp", "open", "high", "low", "close", "volume"}

HasColumns(data) == RequiredColumns \subseteq DOMAIN data[1]

(* predict(market_data); latest_pred is what the model returns for the     *)
(* last window                                                             *)
predict(ag, market_data, latest_pred) ==
    IF ModelNotTrained(ag) THEN Raised("Model not trained")
    ELSE IF ~HasColumns(market_data) THEN Raised("KeyError")
    ELSE IF NotEnoughData(preprocess_default(market_data).X)
    THEN Raised("Not enough data")
    ELSE [ok |-> TRUE,
          signal |-> signal_of(latest_pred, ag.risk_level),
          confidence |-> confidence_of(latest_pred),
          raw_prediction |-> latest_pred,
          risk_adjusted |-> ag.risk_level]

-----------------------------------------------------------------------------
(* The live position step: AIAgent.execute_strategy *)

FlatPosition == [in_position |-> FALSE, buy_price |-> R(0), quantity |-> R(0)]

(* action_of without the position guards: every buy or sell signal acts *)
action_of_unguarded(signal, pos) == signal

(* the branch taken on (signal, position) *)
action_of(signal, pos) ==
    IF signal = "buy" /\ ~pos.in_position THEN "buy"
    ELSE IF signal = "sell" /\ pos.in_position THEN "sell"
    ELSE "hold"

(* BuyStep with the all-in sizing of the backtest *)
BuyStep_all_in(bal, pos, current_price, confidence, risk_level) ==
    [action |-> "buy",
     position |-> [in_position |-> TRUE, buy_price |-> current_price,
                   quantity |-> Div(bal, current_price)],
     balance |-> R(0),
     profit_loss |-> R(0)]

(* BuyStep that spends twice the position size *)
BuyStep_twice(bal, pos, current_price, confidence, risk_level) ==
    LET position_size == Mul(R(2), Mul(Mul(bal, confidence), risk_level))
    IN  [action |-> "buy",
         position |-> [in_position |-> TRUE, buy_price |-> current_price,
                       quantity |-> Div(position_size, current_price)],
         balance |-> Sub(bal, position_size),
         profit_loss |-> R(0)]

BuyStep(bal, pos, current_price, confidence, risk_level) ==
    LET position_size == Mul(Mul(bal, confidence), risk_level)
        quantity == Div(position_size, current_price)
    IN  [action |-> "buy",
         position |-> [in_position |-> TRUE, buy_price |-> current_price,
                       quantity |-> quantity],
         balance |-> Sub(bal, position_size),
         profit_loss |-> R(0)]

(* SellStep that clears only the in_position flag *)
SellStep_flag_only(bal, pos, current_price) ==
    LET position_value == Mul(pos.quantity, current_price)
    IN  [action |-> "sell",
         position |-> [pos EXCEPT !.in_position = FALSE],
         balance |-> Add(bal, position_value),
         profit_loss |-> Sub(position_value, Mul(pos.quantity, pos.buy_price))]

SellStep(bal, pos, current_price) ==
    LET position_value == Mul(pos.quantity, current_price)
        profit_loss == Sub(position_value, Mul(pos.quantity, pos.buy_price))
    IN  [action |-> "sell",
         position |-> FlatPosition,
         balance |-> Add(bal, position_value),
         profit_loss |-> profit_loss]

HoldStep(bal, pos, current_price) ==
    [action |-> "hold",
     position |-> pos,
     balance |-> bal,
     profit_loss |-> IF pos.in_position
                     THEN Mul(Sub(current_price, pos.buy_price), pos.quantity)
                     ELSE R(0)]

(* The object the caller passed as position, after the call: the dict is   *)
(* updated in place; a caller that passed None still holds None.           *)
CallerObject(arg, position_after) == IF arg = None THEN None ELSE <<position_after>>

(* execute_strategy(market_data, balance, position); arg is the caller's   *)
(* position object (None or <<dict>>)                                      *)
execute_strategy(ag, market_data, bal, arg, latest_pred) ==
    LET prediction == predict(ag, market_data, latest_pred)
        current_price == R(Last(market_data).close)
        pos == IF arg = None THEN FlatPosition ELSE arg[1]
        branch == action_of(prediction.signal, pos)
        step == IF branch = "buy"
                THEN BuyStep(bal, pos, current_price, prediction.confidence, ag.risk_level)
                ELSE IF branch = "sell" THEN SellStep(bal, pos, current_price)
                ELSE HoldStep(bal, pos, current_price)
    IN  IF ~prediction.ok THEN prediction
        ELSE [ok |-> TRUE,
              action |-> step.action,
              price |-> current_price,
              balance |-> step.balance,
              position |-> step.position,
              prediction |-> prediction,
              profit_loss |-> step.profit_loss,
              arg |-> CallerObject(arg, step.position)]

-----------------------------------------------------------------------------
(* Inputs *)

(* what the model returns for a window *)
ProbSet == {Frac(1, 25), Half, Frac(24, 25), R(1)}

(* the finer grid the signal thresholds are tried on *)
ProbGrid ==
    {R(0), Frac(1, 25), Frac(399, 1000), Frac(2, 5), Frac(449, 1000), Frac(9, 20),
     Frac(499, 1000), Half, Frac(501, 1000), Frac(11, 20), Frac(551, 1000), Frac(3, 5),
     Frac(601, 1000), Frac(24, 25), R(1)}

RiskSet == {R(0), Half, R(1)}

RiskGrid == {R(0), Frac(1, 4), Half, Frac(3, 4), R(1)}

(* self.performance_metrics as __init__ sets it *)
InitialMetrics ==
    [accuracy |-> R(0), profit_loss |-> R(0), win_rate |-> R(0), sharpe_ratio |-> R(0)]

Agents(risks) ==
    [risk_level : risks, trained : BOOLEAN, model : BOOLEAN,
     performance_metrics : {InitialMetrics}]

AgentSet == Agents(RiskSet)

LongPosition == [in_position |-> TRUE, buy_price |-> R(100), quantity |-> R(10)]

-----------------------------------------------------------------------------
(* State *)

NoWindowing == <<>>

NoBacktest == <<>>

(* the agent ids in use: the names of the directories under model_dir *)
AgentIds == {"a1", "a2"}

(* nothing persisted under any id *)
EmptyStore == [id \in AgentIds |-> None]

(* no table traded on yet, nothing persisted, no operation called *)
NoOperations ==
    /\ series = <<>>
    /\ store = EmptyStore
    /\ out = None

InitAgent == agent \in AgentSet

InitLive ==
    /\ balance = R(1000)
    /\ position \in {None, <<FlatPosition>>, <<LongPosition>>}
    /\ last = <<>>
    /\ steps = 0

Init ==
    /\ InitAgent
    /\ InitLive
    /\ pred = <<>>
    /\ win = NoWindowing
    /\ bt = NoBacktest
    /\ NoOperations

(* One call of execute_strategy with the objects the caller holds.  The    *)
(* caller's balance is a float and stays; the caller's position dict is    *)
(* the object the call worked on.                                          *)
LiveStep(market_data, latest_pred) ==
    /\ steps < MaxSteps
    /\ LET ret == execute_strategy(agent, market_data, balance, position, latest_pred)
       IN  /\ last' = <<[balance |-> balance, position |-> position,
                         n |-> Len(market_data), ret |-> ret]>>
           /\ position' = IF ret.ok THEN ret.arg ELSE position
           /\ series' = IF ret.ok THEN <<Last(TimeOrdered(market_data))>> ELSE <<>>
    /\ steps' = steps + 1
    /\ UNCHANGED <<agent, balance, pred, win, bt, store, out>>

(* The caller threads the returned state into its next call. *)
Thread ==
    /\ last # <<>>
    /\ last[1].ret.ok
    /\ <<balance, position>> # <<last[1].ret.balance, <<last[1].ret.position>> >>
    /\ balance' = last[1].ret.balance
    /\ position' = <<last[1].ret.position>>
    /\ UNCHANGED <<agent, pred, last, steps, win, bt, series, store, out>>

Next ==
    \/ \E d \in LiveData, p \in ProbSet : LiveStep(d, p)
    \/ Thread

Spec == Init /\ [][Next]_vars

-----------------------------------------------------------------------------
(* predict on its own, on the finer grid *)

InitSignal ==
    /\ agent \in Agents(RiskGrid)
    /\ balance = R(1000)
    /\ position = None
    /\ last = <<>>
    /\ steps = 0
    /\ pred = <<>>
    /\ win = NoWindowing
    /\ bt = NoBacktest
    /\ NoOperations

Predict(market_data, latest_pred) ==
    /\ pred' = <<predict(agent, market_data, latest_pred)>>
    /\ UNCHANGED <<agent, balance, position, last, steps, win, bt, series, store, out>>

NextSignal == \E d \in LiveData, p \in ProbGrid : Predict(d, p)

SpecSignal == InitSignal /\ [][NextSignal]_vars

-----------------------------------------------------------------------------
(* The windowing stage on its own: preprocess_data with a window length    *)
(* of the caller's choice, then the length check every operation makes.    *)

ClosePair == {1, 2}

(* tables of n rows: every row order of timestamps 1..n, every close *)
Tables(n) ==
    {[k \in 1..n |-> Bar(ts[k], 1, cl[k])] :
        ts \in {f \in [1..n -> 1..n] : \A a, b \in 1..n : a # b => f[a] # f[b]},
        cl \in [1..n -> ClosePair]}

WindowData == UNION {Tables(n) : n \in 1..MaxBars}

windowing(data, seq_len) ==
    LET r == preprocess_data(data, seq_len)
    IN  IF NotEnoughData(r.X) THEN Raised("Not enough data")
        ELSE [ok |-> TRUE, X |-> r.X, y |-> r.y]

InitWindow ==
    /\ agent = [risk_level |-> Half, trained |-> FALSE, model |-> FALSE,
                performance_metrics |-> InitialMetrics]
    /\ balance = R(1000)
    /\ position = None
    /\ last = <<>>
    /\ steps = 0
    /\ pred = <<>>
    /\ bt = NoBacktest
    /\ NoOperations
    /\ \E d \in WindowData, l \in 1..MaxLen :
          win = [done |-> FALSE, data |-> d, seq_len |-> l]

Window ==
    /\ ~win.done
    /\ win' = [done |-> TRUE, data |-> win.data, seq_len |-> win.seq_len,
               ret |-> windowing(win.data, win.seq_len)]
    /\ UNCHANGED <<agent, balance, position, pred, last, steps, bt, series, store, out>>

NextWindow == Window

SpecWindow == InitWindow /\ [][NextWindow]_vars

-----------------------------------------------------------------------------
(* Properties of the live step *)

Called == last # <<>> /\ last[1].ret.ok

Ret == last[1].ret

PosBefore == IF last[1].position = None THEN FlatPosition ELSE last[1].position[1]

PositionSize == Mul(Mul(last[1].balance, Ret.prediction.confidence), agent.risk_level)

(* C1: a buy signal on a position that is not held, with a finite balance  *)
(* and a price above 0, returns action buy, a held position entered at the *)
(* current price with quantity * price = balance * confidence *            *)
(* risk_level, and the balance less that amount.                           *)
C1_FlatBuy ==
    (Called /\ Ret.prediction.signal = "buy" /\ ~PosBefore.in_position
        /\ IsFinite(last[1].balance) /\ Gt(Ret.price, R(0)))
    => /\ Ret.action = "buy"
       /\ Ret.position.in_position
       /\ Ret.position.buy_price = Ret.price
       /\ Mul(Ret.position.quantity, Ret.price) = PositionSize
       /\ Add(Ret.balance, PositionSize) = last[1].balance

C1_Witness ==
    /\ Called
    /\ Ret.action = "buy"
    /\ last[1].balance = R(1000)
    /\ Ret.prediction.confidence = R(1)
    /\ agent.risk_level = R(1)
    /\ Ret.price = R(100)
    /\ Ret.position = [in_position |-> TRUE, buy_price |-> R(100), quantity |-> R(10)]
    /\ Ret.balance = R(0)

(* C2: a sell signal on a held position returns action sell, the realized  *)
(* profit/loss quantity * price - quantity * entry, the balance plus       *)
(* quantity * price, and a position not held with entry 0 and quantity 0.  *)
C2_LongSell ==
    (Called /\ Ret.prediction.signal = "sell" /\ PosBefore.in_position)
    => /\ Ret.action = "sell"
       /\ Ret.profit_loss = Sub(Mul(PosBefore.quantity, Ret.price),
                                Mul(PosBefore.quantity, PosBefore.buy_price))
       /\ Ret.balance = Add(last[1].balance, Mul(PosBefore.quantity, Ret.price))
       /\ Ret.position = [in_position |-> FALSE, buy_price |-> R(0), quantity |-> R(0)]

C2_Witness ==
    /\ Called
    /\ Ret.action = "sell"
    /\ PosBefore = [in_position |-> TRUE, buy_price |-> R(100), quantity |-> R(10)]
    /\ last[1].balance = R(0)
    /\ Ret.price = R(120)
    /\ Ret.profit_loss = R(200)
    /\ Ret.balance = R(1200)

NoOpCase ==
    \/ Ret.prediction.signal = "hold"
    \/ (Ret.prediction.signal = "sell" /\ ~PosBefore.in_position)
    \/ (Ret.prediction.signal = "buy" /\ PosBefore.in_position)

(* C3: a sell signal while flat, a buy signal while long and every hold    *)
(* signal report action hold, leave balance and position as they were, and *)
(* report (price - entry) * quantity when long and 0 when flat.            *)
C3_NoOp ==
    (Called /\ NoOpCase)
    => /\ Ret.action = "hold"
       /\ Ret.balance = last[1].balance
       /\ Ret.position = PosBefore
       /\ Ret.arg = last[1].position
       /\ Ret.profit_loss =
            (IF PosBefore.in_position
             THEN Mul(Sub(Ret.price, PosBefore.buy_price), PosBefore.quantity)
             ELSE R(0))

C3_Witness ==
    /\ Called
    /\ Ret.prediction.signal = "buy"
    /\ PosBefore = LongPosition
    /\ Ret.price = R(120)
    /\ Ret.action = "hold"
    /\ Ret.profit_loss = R(200)

(* C5: no buy from flat goes through at a price of 0 or below, and no held *)
(* position has an infinite, undefined or negative quantity.               *)
C5_InvalidPriceRejected ==
    Called =>
       /\ (Ret.action = "buy" => Gt(Ret.price, R(0)))
       /\ (Ret.position.in_position =>
              IsFinite(Ret.position.quantity) /\ Le(R(0), Ret.position.quantity))

(* C6: the call leaves the position object the caller passed as it was.    *)
C6_CallerPositionUntouched ==
    Called => Ret.arg = last[1].position

-----------------------------------------------------------------------------
(* Properties of predict *)

Predicted == pred # <<>> /\ pred[1].ok

(* with p = a/b and r = c/d: p > 1/2 + r/10, p < 1/2 - r/10 *)
AboveBand(p, r) == 10 * p[1] * r[2] > 5 * p[2] * r[2] + p[2] * r[1]

BelowBand(p, r) == 10 * p[1] * r[2] < 5 * p[2] * r[2] - p[2] * r[1]

(* C7: the signal is buy iff p > 0.5 + 0.1 r, sell iff p < 0.5 - 0.1 r and *)
(* hold otherwise, and no p is on both sides.                              *)
C7_SignalThresholds ==
    Predicted =>
        LET p == pred[1].raw_prediction
            r == pred[1].risk_adjusted
        IN  /\ (pred[1].signal = "buy") <=> AboveBand(p, r)
            /\ (pred[1].signal = "sell") <=> BelowBand(p, r)
            /\ (pred[1].signal = "hold") <=> (~AboveBand(p, r) /\ ~BelowBand(p, r))
            /\ ~(AboveBand(p, r) /\ BelowBand(p, r))

C7_Witness ==
    /\ Predicted
    /\ pred[1].risk_adjusted = Half
    /\ pred[1].raw_prediction = Frac(11, 20)
    /\ pred[1].signal = "hold"

C7_WitnessBuy ==
    /\ Predicted
    /\ pred[1].risk_adjusted = Half
    /\ pred[1].raw_prediction = Frac(551, 1000)
    /\ pred[1].signal = "buy"

(* C8: the confidence c of a probability p = a/b is |2a - b| / b, lies in  *)
(* [0, 1], is 0 exactly at p = 1/2 and 1 exactly at p = 0 and p = 1.       *)
C8_Confidence ==
    Predicted =>
        LET p == pred[1].raw_prediction
            c == pred[1].confidence
        IN  /\ c[2] > 0
            /\ c[1] * p[2] = AbsI(2 * p[1] - p[2]) * c[2]
            /\ 0 <= c[1] /\ c[1] <= c[2]
            /\ (c = R(0)) <=> (p = Half)
            /\ (c = R(1)) <=> (p \in {R(0), R(1)})

C8_Witness ==
    /\ Predicted
    /\ pred[1].raw_prediction = R(0)
    /\ pred[1].risk_adjusted = Frac(1, 4)
    /\ pred[1].confidence = R(1)

-----------------------------------------------------------------------------
(* The backtest: AIAgent.evaluate, one action per pass of its loop *)

(* sklearn's accuracy, precision, recall and f1 with zero_division=0 *)
Count(y_true, y_pred, t, q) ==
    Cardinality({k \in 1..Len(y_pred) : y_true[k] = t /\ y_pred[k] = q})

Ratio(n, d) == IF d = 0 THEN R(0) ELSE Frac(n, d)

accuracy_score(y_true, y_pred) ==
    Frac(Count(y_true, y_pred, 1, 1) + Count(y_true, y_pred, 0, 0), Len(y_pred))

precision_score(y_true, y_pred) ==
    Ratio(Count(y_true, y_pred, 1, 1),
          Count(y_true, y_pred, 1, 1) + Count(y_true, y_pred, 0, 1))

recall_score(y_true, y_pred) ==
    Ratio(Count(y_true, y_pred, 1, 1),
          Count(y_true, y_pred, 1, 1) + Count(y_true, y_pred, 1, 0))

f1_score(y_true, y_pred) ==
    Ratio(2 * Count(y_true, y_pred, 1, 1),
          2 * Count(y_true, y_pred, 1, 1) + Count(y_true, y_pred, 0, 1)
            + Count(y_true, y_pred, 1, 0))

(* position is not None and position['in_position'] *)
Holding(pos) == pos # None /\ pos[1].in_position

(* a buy that spends half of the cash *)
EvalBuy_half(b, price, timestamp) ==
    [b EXCEPT !.position = <<[in_position |-> TRUE, buy_price |-> price,
                              quantity |-> Div(Mul(b.balance, Half), price)]>>,
              !.balance = Mul(b.balance, Half),
              !.trades = Append(b.trades,
                                [action |-> "buy", price |-> price, timestamp |-> timestamp])]

(* the buy branch of the loop *)
EvalBuy(b, price, timestamp) ==
    [b EXCEPT !.position = <<[in_position |-> TRUE, buy_price |-> price,
                              quantity |-> Div(b.balance, price)]>>,
              !.balance = R(0),
              !.trades = Append(b.trades,
                                [action |-> "buy", price |-> price, timestamp |-> timestamp])]

(* the sell branch of the loop: only in_position is written back *)
EvalSell(b, price, timestamp) ==
    LET pos == b.position[1]
    IN  [b EXCEPT !.balance = Mul(pos.quantity, price),
                  !.trades = Append(b.trades,
                                    [action |-> "sell", price |-> price,
                                     timestamp |-> timestamp,
                                     profit_loss |-> Mul(Sub(price, pos.buy_price),
                                                         pos.quantity)]),
                  !.position = <<[pos EXCEPT !.in_position = FALSE]>>]

(* signal = 'buy' if y_pred[i] > 0.5 else 'sell', y_pred[i] being 0 or 1 *)
eval_signal(y) == IF 2 * y > 1 THEN "buy" ELSE "sell"

SellTrades(trades) == {k \in 1..Len(trades) : trades[k].action = "sell"}

WinningTrades(trades) ==
    {k \in SellTrades(trades) : Gt(trades[k].profit_loss, R(0))}

(* a win rate that counts the trades that did not lose *)
win_rate_nonlosing(trades) ==
    IF Cardinality(SellTrades(trades)) > 0
    THEN Frac(Cardinality({k \in SellTrades(trades) : ~Lt(trades[k].profit_loss, R(0))}),
              Cardinality(SellTrades(trades)))
    ELSE R(0)

win_rate_of(trades) ==
    IF Cardinality(SellTrades(trades)) > 0
    THEN Frac(Cardinality(WinningTrades(trades)), Cardinality(SellTrades(trades)))
    ELSE R(0)

(* what the model returns for a window in a backtest *)
EvalProbs == {Frac(1, 25), Half, Frac(24, 25)}

InitEval ==
    /\ InitAgent
    /\ balance = R(1000)
    /\ position = None
    /\ last = <<>>
    /\ steps = 0
    /\ pred = <<>>
    /\ win = NoWindowing
    /\ bt = NoBacktest
    /\ NoOperations

(* y_pred = (y_pred_prob > 0.5).astype(int) *)
classify(p) == IF Gt(p, Half) THEN 1 ELSE 0

(* evaluate_start whose y_pred takes the risk band of predict *)
evaluate_start_banded(ag, test_data, y_pred_prob) ==
    IF ModelNotTrained(ag) THEN [pc |-> "raised", error |-> "Model not trained"]
    ELSE IF ~HasColumns(test_data) THEN [pc |-> "raised", error |-> "KeyError"]
    ELSE LET r == preprocess_default(test_data)
             n == Len(r.X)
         IN  IF NotEnoughData(r.X) THEN [pc |-> "raised", error |-> "Not enough data"]
             ELSE [pc |-> "loop",
                   y_true |-> r.y,
                   y_pred_prob |-> [k \in 1..n |-> y_pred_prob[k]],
                   y_pred |-> [k \in 1..n |->
                                 IF signal_of(y_pred_prob[k], ag.risk_level) = "buy"
                                 THEN 1 ELSE 0],
                   close |-> [k \in 1..n |-> R(test_data[k + sequence_length].close)],
                   timestamp |-> [k \in 1..n |-> test_data[k + sequence_length].timestamp],
                   final_price |-> R(Last(test_data).close),
                   i |-> 0,
                   balance |-> R(initial_balance),
                   position |-> None,
                   trades |-> <<>>]

(* evaluate up to its loop; y_pred_prob is what the model returns, one     *)
(* probability per window. The prices and timestamps are read from         *)
(* test_data as it was passed, by row position.                            *)
evaluate_start(ag, test_data, y_pred_prob) ==
    IF ModelNotTrained(ag) THEN [pc |-> "raised", error |-> "Model not trained"]
    ELSE IF ~HasColumns(test_data) THEN [pc |-> "raised", error |-> "KeyError"]
    ELSE LET r == preprocess_default(test_data)
             n == Len(r.X)
         IN  IF NotEnoughData(r.X) THEN [pc |-> "raised", error |-> "Not enough data"]
             ELSE [pc |-> "loop",
                   y_true |-> r.y,
                   y_pred_prob |-> [k \in 1..n |-> y_pred_prob[k]],
                   y_pred |-> [k \in 1..n |-> classify(y_pred_prob[k])],
                   close |-> [k \in 1..n |-> R(test_data[k + sequence_length].close)],
                   timestamp |-> [k \in 1..n |-> test_data[k + sequence_length].timestamp],
                   final_price |-> R(Last(test_data).close),
                   i |-> 0,
                   balance |-> R(initial_balance),
                   position |-> None,
                   trades |-> <<>>]

(* one pass of `for i in range(len(y_pred))` *)
evaluate_pass(b0) ==
    LET signal == eval_signal(At(b0.y_pred, b0.i))
        price == At(b0.close, b0.i)
        timestamp == At(b0.timestamp, b0.i)
        b == [b0 EXCEPT !.i = b0.i + 1]
    IN  IF signal = "buy" /\ ~Holding(b0.position) THEN EvalBuy(b, price, timestamp)
        ELSE IF signal = "sell" /\ Holding(b0.position) THEN EvalSell(b, price, timestamp)
        ELSE b

(* after the loop without marking the open position *)
final_balance_cash(b) == b.balance

(* after the loop: an open position is marked to the close of the last row *)
final_balance_of(b) ==
    IF Holding(b.position) THEN Mul(b.position[1].quantity, b.final_price)
    ELSE b.balance

(* metrics whose percentage is taken of the final balance *)
evaluate_metrics_of_final(b) ==
    LET final_balance == final_balance_of(b)
        profit_loss == Sub(final_balance, R(initial_balance))
    IN  [accuracy |-> accuracy_score(b.y_true, b.y_pred),
         precision |-> precision_score(b.y_true, b.y_pred),
         recall |-> recall_score(b.y_true, b.y_pred),
         f1_score |-> f1_score(b.y_true, b.y_pred),
         profit_loss |-> profit_loss,
         profit_loss_pct |-> Mul(Div(profit_loss, final_balance), R(100)),
         win_rate |-> win_rate_of(b.trades),
         num_trades |-> Cardinality(SellTrades(b.trades)),
         final_balance |-> final_balance]

(* the metrics evaluate works out, stores on the agent and returns *)
evaluate_metrics(b) ==
    LET final_balance == final_balance_of(b)
        profit_loss == Sub(final_balance, R(initial_balance))
    IN  [accuracy |-> accuracy_score(b.y_true, b.y_pred),
         precision |-> precision_score(b.y_true, b.y_pred),
         recall |-> recall_score(b.y_true, b.y_pred),
         f1_score |-> f1_score(b.y_true, b.y_pred),
         profit_loss |-> profit_loss,
         profit_loss_pct |-> Mul(Div(profit_loss, R(initial_balance)), R(100)),
         win_rate |-> win_rate_of(b.trades),
         num_trades |-> Cardinality(SellTrades(b.trades)),
         final_balance |-> final_balance]

EvaluateStart(test_data, y_pred_prob) ==
    /\ bt = NoBacktest
    /\ bt' = evaluate_start(agent, test_data, y_pred_prob)
    /\ series' = IF bt'.pc = "loop"
                 THEN SubSeq(TimeOrdered(test_data), sequence_length + 1, Len(test_data))
                 ELSE <<>>
    /\ UNCHANGED <<agent, balance, position, pred, last, steps, win, store, out>>

EvaluateStep ==
    /\ bt # NoBacktest
    /\ bt.pc = "loop"
    /\ bt.i < Len(bt.y_pred)
    /\ bt' = evaluate_pass(bt)
    /\ UNCHANGED <<agent, balance, position, pred, last, steps, win, series, store, out>>

(* EvaluateFinish that adds the profit to the one the agent already holds *)
EvaluateFinish_accumulating ==
    /\ bt # NoBacktest
    /\ bt.pc = "loop"
    /\ bt.i = Len(bt.y_pred)
    /\ bt' = [bt EXCEPT !.pc = "done", !.balance = final_balance_of(bt)]
    /\ agent' = [agent EXCEPT !.performance_metrics =
                    [evaluate_metrics(bt) EXCEPT
                        !.profit_loss = Add(@, agent.performance_metrics.profit_loss)]]
    /\ UNCHANGED <<balance, position, pred, last, steps, win, series, store, out>>

EvaluateFinish ==
    /\ bt # NoBacktest
    /\ bt.pc = "loop"
    /\ bt.i = Len(bt.y_pred)
    /\ bt' = [bt EXCEPT !.pc = "done", !.balance = final_balance_of(bt)]
    /\ agent' = [agent EXCEPT !.performance_metrics = evaluate_metrics(bt)]
    /\ UNCHANGED <<balance, position, pred, last, steps, win, series, store, out>>

NextEval ==
    \/ /\ bt = NoBacktest
       /\ \E d \in EvalData :
            \E probs \in [1..Len(preprocess_default(d).X) -> EvalProbs] :
                EvaluateStart(d, probs)
    \/ EvaluateStep
    \/ EvaluateFinish

SpecEval == InitEval /\ [][NextEval]_vars

-----------------------------------------------------------------------------
(* Persistence: __init__, save_model, load_model, train, to_dict,          *)
(* from_dict, AgentFactory                                                  *)

(* `metadata or {}`: a dict is a set of its entries here *)
OrEmpty(metadata) == IF metadata = None THEN {} ELSE metadata[1]

(* AIAgent(agent_id, name, strategy_type, risk_level, metadata); now is    *)
(* str(int(time.time())), the id an agent gets when none is given          *)
AIAgent(agent_id, name, strategy_type, risk_level, metadata, now) ==
    [agent_id |-> IF agent_id = None THEN now ELSE agent_id[1],
     name |-> name,
     strategy_type |-> strategy_type,
     risk_level |-> risk_level,
     metadata |-> OrEmpty(metadata),
     model |-> FALSE,
     trained |-> FALSE,
     performance_metrics |-> InitialMetrics]

(* the seven fields of an agent record *)
to_dict(ag) ==
    [agent_id |-> ag.agent_id,
     name |-> ag.name,
     strategy_type |-> ag.strategy_type,
     risk_level |-> ag.risk_level,
     trained |-> ag.trained,
     performance_metrics |-> ag.performance_metrics,
     metadata |-> ag.metadata]

(* save_model: nothing is written without a model; otherwise the model    *)
(* files and metadata.json (created_at left out) replace what the          *)
(* directory of the agent held                                             *)
save_model(ag, st) ==
    IF ~ag.model THEN [ok |-> FALSE, store |-> st]
    ELSE [ok |-> TRUE, store |-> [st EXCEPT ![ag.agent_id] = <<to_dict(ag)>>]]

(* load_model: fails without a model file; otherwise the model is loaded   *)
(* and the fields of metadata.json overwrite those of the object           *)
load_model(ag, st) ==
    IF st[ag.agent_id] = None THEN [ok |-> FALSE, agent |-> ag]
    ELSE LET metadata == st[ag.agent_id][1]
         IN  [ok |-> TRUE,
              agent |-> [ag EXCEPT !.model = TRUE,
                                   !.name = metadata.name,
                                   !.strategy_type = metadata.strategy_type,
                                   !.risk_level = metadata.risk_level,
                                   !.trained = metadata.trained,
                                   !.performance_metrics = metadata.performance_metrics,
                                   !.metadata = metadata.metadata]]

(* from_dict: the object is built from the record and, when the record     *)
(* says trained, load_model is called on it                                *)
from_dict(data, st) ==
    LET ag == [AIAgent(<<data.agent_id>>, data.name, data.strategy_type, data.risk_level,
                       <<data.metadata>>, data.agent_id)
               EXCEPT !.trained = data.trained,
                      !.performance_metrics = data.performance_metrics]
    IN  IF ag.trained THEN load_model(ag, st).agent ELSE ag

(* AgentFactory.load_agent: None when load_model fails *)
load_agent(agent_id, st) ==
    LET r == load_model(AIAgent(<<agent_id>>, "Default Agent", "lstm", Half, None, agent_id), st)
    IN  IF r.ok THEN <<r.agent>> ELSE None

(* train: the model is built and fitted, save_model is called, and only    *)
(* then are the accuracy and the trained flag set; val_accuracy is what    *)
(* the fit reports                                                         *)
train(ag, training_data, st, val_accuracy) ==
    IF ~HasColumns(training_data) THEN Raised("KeyError") @@ [agent |-> ag, store |-> st]
    ELSE IF NotEnoughData(preprocess_default(training_data).X)
    THEN Raised("Not enough data") @@ [agent |-> ag, store |-> st]
    ELSE LET fitted == [ag EXCEPT !.model = TRUE]
         IN  [ok |-> TRUE,
              store |-> save_model(fitted, st).store,
              agent |-> [fitted EXCEPT !.performance_metrics.accuracy = val_accuracy,
                                       !.trained = TRUE],
              history |-> [val_accuracy |-> val_accuracy]]

(* the loop of evaluate from a state of it to its end *)
RECURSIVE evaluate_loop(_)
evaluate_loop(b) == IF b.i = Len(b.y_pred) THEN b ELSE evaluate_loop(evaluate_pass(b))

(* evaluate from its loop on: b is the state evaluate_start leaves *)
evaluate_from(ag, b) ==
    IF b.pc = "raised" THEN Raised(b.error) @@ [agent |-> ag]
    ELSE LET metrics == evaluate_metrics(evaluate_loop(b))
         IN  [ok |-> TRUE, metrics |-> metrics,
              agent |-> [ag EXCEPT !.performance_metrics = metrics]]

(* evaluate as one call: the metrics it returns and the agent holding them *)
evaluate(ag, test_data, y_pred_prob) ==
    evaluate_from(ag, evaluate_start(ag, test_data, y_pred_prob))

-----------------------------------------------------------------------------
(* The caller-facing operations: the functions of src/scripts. Each        *)
(* returns its envelope and the model directory it leaves.                 *)

Failure(msg) == [success |-> FALSE, error |-> msg]

(* an operation without its except clause: what was raised gets out *)
Uncaught(r) == [raised |-> r.error]

(* the except clause of an operation: what was raised inside becomes a     *)
(* failure envelope                                                        *)
Caught(r) == Failure(r.error)

(* float(risk_level): a number, or a text that is not one *)
IsFloat(x) == "float" \in DOMAIN x

(* create_agent.py: the agent is built with the id of the current second   *)
(* and save_model is called on it                                          *)
create_agent(name, strategy_type, risk_level, metadata, now, st) ==
    IF ~IsFloat(risk_level)
    THEN [out |-> Caught(Raised("could not convert string to float")), store |-> st]
    ELSE LET ag == AIAgent(None, name, strategy_type, risk_level.float, metadata, now)
         IN  [out |-> [success |-> TRUE,
                       agent_id |-> ag.agent_id,
                       name |-> ag.name,
                       strategy_type |-> ag.strategy_type,
                       risk_level |-> ag.risk_level,
                       performance_metrics |-> ag.performance_metrics],
              store |-> save_model(ag, st).store]

(* load_training_data: the required columns are checked and the rows       *)
(* sorted by timestamp                                                     *)
load_training_data(data_source) ==
    IF ~HasColumns(data_source) THEN Raised("Required column not found in training data")
    ELSE [ok |-> TRUE, data |-> TimeOrdered(data_source)]

(* train_agent.py once the agent is loaded and the data read: train, then *)
(* evaluate on the last fifth of the training data and return the metrics  *)
(* of that evaluation                                                      *)
train_agent_evaluated(trained, evaluated) ==
    IF ~evaluated.ok THEN [out |-> Caught(evaluated), store |-> trained.store]
    ELSE [out |-> [success |-> TRUE,
                   agent_id |-> trained.agent.agent_id,
                   name |-> trained.agent.name,
                   training_history |-> trained.history,
                   performance_metrics |-> evaluated.metrics],
          store |-> trained.store]

train_agent_trained(trained, training_data, y_pred_prob) ==
    IF ~trained.ok THEN [out |-> Caught(trained), store |-> trained.store]
    ELSE train_agent_evaluated(
             trained, evaluate(trained.agent, validation_data(training_data), y_pred_prob))

train_agent_loaded(ag, training_data, st, val_accuracy, y_pred_prob) ==
    IF ~training_data.ok THEN [out |-> Caught(training_data), store |-> st]
    ELSE train_agent_trained(train(ag, training_data.data, st, val_accuracy),
                             training_data.data, y_pred_prob)

(* train_agent.py: an agent that cannot be loaded is reported as not found *)
train_agent(agent_id, data_source, st, val_accuracy, y_pred_prob) ==
    LET loaded == load_agent(agent_id, st)
    IN  IF loaded = None THEN [out |-> Failure("Agent not found"), store |-> st]
        ELSE train_agent_loaded(loaded[1], load_training_data(data_source), st,
                                val_accuracy, y_pred_prob)

(* the envelope of a call made on a loaded agent *)
Envelope(ag, key, r) ==
    IF ~r.ok THEN Caught(r)
    ELSE [success |-> TRUE, agent_id |-> ag.agent_id, name |-> ag.name] @@ (key :> r)

(* predict.py *)
make_prediction(agent_id, market_data, st, latest_pred) ==
    LET loaded == load_agent(agent_id, st)
    IN  IF loaded = None THEN Failure("Agent not found")
        ELSE IF ~loaded[1].trained THEN Failure("Agent is not trained")
        ELSE Envelope(loaded[1], "prediction", predict(loaded[1], market_data, latest_pred))

(* execute_strategy.py *)
execute_strategy_script(agent_id, market_data, bal, arg, st, latest_pred) ==
    LET loaded == load_agent(agent_id, st)
    IN  IF loaded = None THEN Failure("Agent not found")
        ELSE IF ~loaded[1].trained THEN Failure("Agent is not trained")
        ELSE Envelope(loaded[1], "execution",
                      execute_strategy(loaded[1], market_data, bal, arg, latest_pred))

(* what the operations are offered *)
OpsData == {Filler, Series(<<120>>), NoCloseColumn}

OpsProbs == {Frac(1, 25), Frac(24, 25)}

OpsRisks == {[float |-> Half], [float |-> R(1)], [text |-> "high"]}

FitAccuracy == {Frac(3, 4)}

(* a process holding one agent object, built with the id a1, and an empty  *)
(* model directory                                                         *)
InitOps ==
    /\ agent \in {AIAgent(<<"a1">>, "alpha", "lstm", r, None, "a1") : r \in {Half, R(1)}}
    /\ balance = R(1000)
    /\ position = None
    /\ last = <<>>
    /\ steps = 0
    /\ pred = <<>>
    /\ win = NoWindowing
    /\ bt = NoBacktest
    /\ NoOperations

(* what a call on the agent object leaves: r is what it returned *)
Trained(r) ==
    /\ agent' = r.agent
    /\ store' = r.store
    /\ out' = <<[op |-> "train", before |-> agent, ret |-> [ok |-> r.ok]]>>
    /\ UNCHANGED <<balance, position, pred, last, steps, win, bt, series>>

Loaded(r) ==
    /\ agent' = r.agent
    /\ out' = <<[op |-> "load_model", before |-> agent, ret |-> [ok |-> r.ok]]>>
    /\ UNCHANGED <<balance, position, pred, last, steps, win, bt, series, store>>

Executed(r, rows) ==
    /\ out' = <<[op |-> "execute_strategy", before |-> agent, rows |-> rows,
                 position |-> position, ret |-> r]>>
    /\ position' = IF r.ok THEN r.arg ELSE position
    /\ UNCHANGED <<agent, balance, pred, last, steps, win, bt, series, store>>

Evaluated(r, rows) ==
    /\ agent' = r.agent
    /\ out' = <<[op |-> "evaluate", before |-> agent, rows |-> rows, position |-> position,
                 ret |-> IF r.ok THEN [ok |-> TRUE, metrics |-> r.metrics]
                         ELSE Raised(r.error)]>>
    /\ UNCHANGED <<balance, position, pred, last, steps, win, bt, series, store>>

Scripted(op, agent_id, r) ==
    /\ out' = <<[op |-> op, agent_id |-> agent_id, before |-> store, ret |-> r.out]>>
    /\ store' = r.store
    /\ UNCHANGED <<agent, balance, position, pred, last, steps, win, bt, series>>

(* calls on the agent object the process holds *)
Train(training_data, val_accuracy) ==
    Trained(train(agent, training_data, store, val_accuracy))

Load == Loaded(load_model(agent, store))

CallPredict(market_data, latest_pred) ==
    /\ out' = <<[op |-> "predict", before |-> agent, rows |-> Len(market_data),
                 position |-> position,
                 ret |-> predict(agent, market_data, latest_pred)]>>
    /\ UNCHANGED <<agent, balance, position, pred, last, steps, win, bt, series, store>>

CallExecute(market_data, latest_pred) ==
    Executed(execute_strategy(agent, market_data, balance, position, latest_pred),
             Len(market_data))

CallEvaluate(test_data, y_pred_prob) ==
    Evaluated(evaluate(agent, test_data, y_pred_prob), Len(test_data))

(* the agent is written out with to_dict and read back with from_dict *)
Restore ==
    /\ out' = <<[op |-> "from_dict", before |-> agent,
                 ret |-> to_dict(from_dict(to_dict(agent), store))]>>
    /\ UNCHANGED <<agent, balance, position, pred, last, steps, win, bt, series, store>>

(* the scripts, each run in a process of its own on the model directory *)
CreateAgent(name, risk_level, now) ==
    Scripted("create_agent", now, create_agent(name, "lstm", risk_level, None, now, store))

TrainAgent(agent_id, data_source, val_accuracy, y_pred_prob) ==
    Scripted("train_agent", agent_id,
             train_agent(agent_id, data_source, store, val_accuracy, y_pred_prob))

MakePrediction(agent_id, market_data, latest_pred) ==
    /\ out' = <<[op |-> "predict_script", agent_id |-> agent_id, before |-> store,
                 ret |-> make_prediction(agent_id, market_data, store, latest_pred)]>>
    /\ UNCHANGED <<agent, balance, position, pred, last, steps, win, bt, series, store>>

ExecuteStrategy(agent_id, market_data, latest_pred) ==
    /\ out' = <<[op |-> "execute_strategy_script", agent_id |-> agent_id, before |-> store,
                 ret |-> execute_strategy_script(agent_id, market_data, R(1000), None,
                                                 store, latest_pred)]>>
    /\ UNCHANGED <<agent, balance, position, pred, last, steps, win, bt, series, store>>

NextOps ==
    \/ \E d \in {Filler, Series(<<120>>)}, a \in FitAccuracy : Train(d, a)
    \/ Load
    \/ \E d \in OpsData, p \in OpsProbs : CallPredict(d, p)
    \/ \E d \in OpsData, p \in OpsProbs : CallExecute(d, p)
    \/ \E d \in OpsData, p \in [1..1 -> OpsProbs] : CallEvaluate(d, p)
    \/ Restore
    \/ \E n \in {"alpha"}, r \in OpsRisks, now \in AgentIds : CreateAgent(n, r, now)
    \/ \E id \in AgentIds, d \in TrainData \cup {NoCloseColumn}, a \in FitAccuracy,
          p \in [1..1 -> OpsProbs] : TrainAgent(id, d, a, p)
    \/ \E id \in AgentIds, d \in OpsData, p \in OpsProbs : MakePrediction(id, d, p)
    \/ \E id \in AgentIds, d \in OpsData, p \in OpsProbs : ExecuteStrategy(id, d, p)

SpecOps == InitOps /\ [][NextOps]_vars

-----------------------------------------------------------------------------
(* Properties of the position states *)

FlatIsZero(pos) == ~pos.in_position => (pos.buy_price = R(0) /\ pos.quantity = R(0))

(* the part of C4 about the live steps alone *)
LivePositionsFlatIsZero ==
    /\ position # None => FlatIsZero(position[1])
    /\ Called => FlatIsZero(Ret.position)

(* C4: a position that is not held has entry price 0 and quantity 0, in    *)
(* the live state the caller holds, in every returned live state and in    *)
(* every state of a backtest run.                                          *)
C4_PositionInvariant ==
    /\ LivePositionsFlatIsZero
    /\ (bt # NoBacktest /\ bt.pc # "raised" /\ bt.position # None)
          => FlatIsZero(bt.position[1])

-----------------------------------------------------------------------------
(* Properties of the windowing stage *)

(* the row of a table that has r rows with an earlier timestamp *)
Ranked(data, r) ==
    CHOOSE b \in Range(data) :
        Cardinality({c \in Range(data) : c.timestamp < b.timestamp}) = r

(* column j of row b, scaled over the whole table *)
ScaledFeature(data, b, j) ==
    LET col == {FeatureRow(c)[j] : c \in Range(data)}
        mn == CHOOSE m \in col : \A x \in col : m <= x
        mx == CHOOSE m \in col : \A x \in col : m >= x
    IN  IF mx = mn THEN R(0) ELSE Frac(FeatureRow(b)[j] - mn, mx - mn)

Windowed == win # NoWindowing /\ win.done

(* C9: the windowing stage fails iff N <= L; otherwise it yields N - L     *)
(* windows and window i holds, in order, the scaled rows of the bars at    *)
(* places i .. i+L-1 of the table sorted by timestamp.                     *)
C9_Windowing ==
    Windowed =>
        LET N == Len(win.data)
            L == win.seq_len
        IN  /\ (~win.ret.ok) <=> (N <= L)
            /\ ~win.ret.ok => win.ret.error = "Not enough data"
            /\ win.ret.ok =>
                /\ Len(win.ret.X) = N - L
                /\ \A i \in 0..(N - L - 1) :
                     /\ Len(At(win.ret.X, i)) = L
                     /\ \A k \in 0..(L - 1), j \in 1..5 :
                          At(At(win.ret.X, i), k)[j]
                            = ScaledFeature(win.data, Ranked(win.data, i + k), j)

C9_Witness ==
    /\ Windowed
    /\ win.ret.ok
    /\ Len(win.data) = 4
    /\ win.seq_len = 2
    /\ Len(win.ret.X) = 2
    /\ win.data[1].timestamp > win.data[2].timestamp
    /\ win.data[1].close # win.data[2].close

C9_WitnessFail ==
    /\ Windowed
    /\ ~win.ret.ok
    /\ Len(win.data) = win.seq_len

(* C10: the label of window i is 1 iff the close of the bar at place i+L   *)
(* of the sorted table is above the close at place i+L-1, both unscaled.   *)
C10_Labels ==
    (Windowed /\ win.ret.ok) =>
        LET N == Len(win.data)
            L == win.seq_len
        IN  /\ Len(win.ret.y) = N - L
            /\ \A i \in 0..(N - L - 1) :
                 /\ At(win.ret.y, i) \in {0, 1}
                 /\ (At(win.ret.y, i) = 1)
                      <=> (Ranked(win.data, i + L).close > Ranked(win.data, i + L - 1).close)

C10_Witness ==
    /\ Windowed
    /\ win.ret.ok
    /\ win.seq_len = 2
    /\ win.ret.y = <<1, 0>>
    /\ Ranked(win.data, 2).close = Ranked(win.data, 3).close
    /\ win.data[1].timestamp > win.data[2].timestamp

-----------------------------------------------------------------------------
(* Properties of the backtest *)

Backtest == bt # NoBacktest /\ bt.pc # "raised"

InLoop == Backtest /\ bt.pc = "loop"

Finished == Backtest /\ bt.pc = "done"

(* a pass of the loop is being taken *)
LoopPass == InLoop /\ bt' # bt /\ bt'.pc = "loop"

Metrics == agent.performance_metrics

Sells == {k \in 1..Len(bt.trades) : bt.trades[k].action = "sell"}

C13_WinRate ==
    Finished =>
        LET wins == Cardinality({k \in Sells : Gt(bt.trades[k].profit_loss, R(0))})
            n == Cardinality(Sells)
        IN  /\ Metrics.num_trades = n
            /\ n > 0 => Metrics.win_rate = Frac(wins, n)
            /\ n = 0 => Metrics.win_rate = R(0)
            /\ Le(R(0), Metrics.win_rate)
            /\ Le(Metrics.win_rate, R(1))

(* one sell at the price of the buy: a trade, and not a winning one *)
C13_Witness ==
    /\ Finished
    /\ Metrics.num_trades = 1
    /\ bt.trades[2].profit_loss = R(0)
    /\ Metrics.win_rate = R(0)

(* one winning sell *)
C13_WitnessWin ==
    /\ Finished
    /\ Metrics.num_trades = 1
    /\ Metrics.win_rate = R(1)

Buys == {k \in 1..Len(bt.trades) : bt.trades[k].action = "buy"}

(* the cash a run starts with *)
StartingCash == bt.balance

AtStart == InLoop /\ bt.i = 0

C14_WitnessNoBuy ==
    /\ Finished
    /\ Buys = {}
    /\ Len(bt.y_pred) = 3
    /\ Metrics.final_balance = R(initial_balance)

(* C15: whatever the row order of the table, pass i of a backtest trades   *)
(* at the close and the timestamp of the bar at position i + L of the      *)
(* series in timestamp order, and a live step trades at the close of the   *)
(* latest bar by timestamp.                                                *)
C15_TimeOrdering ==
    /\ Backtest =>
          \A k \in 1..Len(bt.y_pred) :
              /\ bt.timestamp[k] = series[k].timestamp
              /\ bt.close[k] = R(series[k].close)
    /\ Called => Ret.price = R(series[1].close)

-----------------------------------------------------------------------------
(* Properties of persistence and of the caller-facing operations *)

Operation == out[1].op

Result == out[1].ret

Script(op) == out # None /\ Operation = op

Succeeded == "success" \in DOMAIN Result /\ Result.success

(* what is persisted under the id the last script was called with *)
Persisted == store[out[1].agent_id]

(* C16: after train_agent has returned success for an agent, the record    *)
(* persisted for it says trained, an agent loaded from it is trained, and  *)
(* neither the predict nor the execute-strategy operation refuses it as    *)
(* not trained.                                                            *)
C16_TrainThenPredict ==
    (Script("train_agent") /\ Succeeded) =>
        /\ Persisted # None
        /\ Persisted[1].trained
        /\ load_agent(out[1].agent_id, store)[1].trained
        /\ make_prediction(out[1].agent_id, Series(<<120>>), store, Frac(24, 25))
              # Failure("Agent is not trained")
        /\ execute_strategy_script(out[1].agent_id, Series(<<120>>), R(1000), None, store,
                                   Frac(24, 25))
              # Failure("Agent is not trained")

(* C17: after train_agent has returned success, the performance metrics    *)
(* persisted for the agent are those returned in the result.               *)
C17_PersistedMetrics ==
    (Script("train_agent") /\ Succeeded) =>
        /\ Persisted # None
        /\ Persisted[1].performance_metrics = Result.performance_metrics

(* C18: an agent record written with to_dict and read back with from_dict  *)
(* gives the same record again, in all seven fields, whatever is persisted *)
(* under its id.                                                           *)
C18_RoundTrip ==
    Script("from_dict") => Result = to_dict(out[1].before)

LibraryCall == out # None /\ Operation \in {"predict", "execute_strategy", "evaluate"}

NotReadyError == ~Result.ok /\ Result.error = "Model not trained"

(* C19: predict, execute_strategy and evaluate fail with the               *)
(* model-not-ready error exactly when the agent has no model, neither      *)
(* fitted by train nor loaded by load_model; the test comes before any     *)
(* windowing, and the failure leaves the agent (trained,                   *)
(* performance_metrics) and the position as they were.                     *)
C19_ModelNotReady ==
    LibraryCall =>
        /\ NotReadyError <=> ~out[1].before.model
        /\ NotReadyError => /\ agent = out[1].before
                            /\ position = out[1].position

ScriptCall ==
    out # None /\ Operation \in {"create_agent", "train_agent", "predict_script",
                                  "execute_strategy_script"}

(* the payload of the success envelope of each operation *)
Payload ==
    IF Operation = "create_agent"
    THEN {"agent_id", "name", "strategy_type", "risk_level", "performance_metrics"}
    ELSE IF Operation = "train_agent"
    THEN {"agent_id", "name", "training_history", "performance_metrics"}
    ELSE IF Operation = "predict_script" THEN {"agent_id", "name", "prediction"}
    ELSE {"agent_id", "name", "execution"}

(* C20: create_agent, train_agent, predict and execute_strategy return     *)
(* either the success envelope with their payload or the failure envelope  *)
(* {success: false, error}; what is raised inside them never gets out, and *)
(* a failure envelope carries nothing of the payload.                      *)
C20_Envelope ==
    ScriptCall =>
        /\ "success" \in DOMAIN Result
        /\ Result.success => DOMAIN Result = {"success"} \cup Payload
        /\ ~Result.success => DOMAIN Result = {"success", "error"}

(* train_agent on an agent that is persisted and a table of 60 rows: the   *)
(* error raised by the training comes back as a failure envelope           *)
C20_Witness ==
    /\ Script("train_agent")
    /\ Persisted # None
    /\ Result = Failure("Not enough data")

(* a prediction returned in its envelope *)
C20_WitnessSuccess ==
    /\ Script("predict_script")
    /\ Succeeded
    /\ Result.prediction.signal = "buy"


-----------------------------------------------------------------------------
(* One process at valid inputs. A process of the repository either trades  *)
(* live (execute_strategy.py) or runs the backtest (train_agent.py), so a   *)
(* behaviour is a live session or a backtest run. The caller starts flat    *)
(* with a balance that is not negative, every table closes at a price above *)
(* 0, the probabilities and the risk level lie in [0, 1].                   *)

PortfolioLiveData == {d \in LiveData : \A k \in 1..Len(d) : d[k].close > 0}

InitPortfolio ==
    /\ InitAgent
    /\ balance \in {R(0), R(1000)}
    /\ position \in {None, <<FlatPosition>>}
    /\ last = <<>>
    /\ steps = 0
    /\ pred = <<>>
    /\ win = NoWindowing
    /\ bt = NoBacktest
    /\ NoOperations

NextPortfolio ==
    \/ /\ bt = NoBacktest
       /\ \E d \in PortfolioLiveData, p \in ProbSet : LiveStep(d, p)
    \/ Thread
    \/ /\ bt = NoBacktest
       /\ steps = 0
       /\ \E d \in EvalData :
            \E probs \in [1..Len(preprocess_default(d).X) -> EvalProbs] :
                EvaluateStart(d, probs)
    \/ EvaluateStep
    \/ EvaluateFinish

SpecPortfolio == InitPortfolio /\ [][NextPortfolio]_vars

NonNegative(bal, pos) ==
    /\ Le(R(0), bal)
    /\ pos # None => (Le(R(0), pos[1].quantity) /\ Le(R(0), pos[1].buy_price))

(* C21: starting flat with a balance >= 0, with every probability and the  *)
(* risk level in [0, 1] and every price above 0, the cash balance, the     *)
(* quantity and the entry price are >= 0 in the state the caller holds, in *)
(* every state a live step returns and in every state of a backtest run.   *)
C21_NonNegativePortfolio ==
    /\ NonNegative(balance, position)
    /\ Called => NonNegative(Ret.balance, <<Ret.position>>)
    /\ Backtest => NonNegative(bt.balance, bt.position)

(* a live buy has spent part of the cash *)
C21_Witness ==
    /\ Called
    /\ Ret.action = "buy"
    /\ Lt(R(0), Ret.balance)
    /\ Lt(Ret.balance, last[1].balance)

(* a live sell has come back from a position bought earlier *)
C21_WitnessSell ==
    /\ Called
    /\ Ret.action = "sell"
    /\ Lt(R(0), PosBefore.quantity)
    /\ balance = last[1].balance

(* a backtest has bought and sold *)
C21_WitnessBacktest ==
    /\ Finished
    /\ Sells # {}
    /\ Lt(R(0), bt.balance)


-----------------------------------------------------------------------------
(* Backtests one after the other on the same agent object: evaluate is     *)
(* called again once the run before it has returned or raised. `out` keeps *)
(* what the run in hand was given and, of the run before it, what that was *)
(* given, the state it ended in and the metrics it left on the agent.      *)

MaxRerun == 2       \* bars after the first sequence_length bars of a repeated run

(* tables whose closes after the first sequence_length bars rise from 80  *)
(* or fall from 120 in steps of 20                                        *)
RerunData ==
    {d \in EvalSeries :
        /\ Len(d) <= sequence_length + MaxRerun
        /\ \/ \A k \in sequence_length + 1..Len(d) :
                d[k].close = 80 + 20 * (k - sequence_length - 1)
           \/ \A k \in sequence_length + 1..Len(d) :
                d[k].close = 120 - 20 * (k - sequence_length - 1)}

RerunProbs == {Frac(1, 25), Frac(11, 20)}

NoRunInHand == IF bt = NoBacktest THEN TRUE ELSE bt.pc # "loop"

RunBacktest(test_data, y_pred_prob) ==
    /\ NoRunInHand
    /\ bt' = evaluate_start(agent, test_data, y_pred_prob)
    /\ out' = <<[op |-> "evaluate", rows |-> test_data, probs |-> y_pred_prob,
                 earlier |-> IF bt = NoBacktest THEN None
                             ELSE <<[rows |-> out[1].rows, probs |-> out[1].probs,
                                     run |-> bt,
                                     metrics |-> agent.performance_metrics]>>]>>
    /\ series' = IF bt'.pc = "loop"
                 THEN SubSeq(TimeOrdered(test_data), sequence_length + 1, Len(test_data))
                 ELSE <<>>
    /\ UNCHANGED <<agent, balance, position, pred, last, steps, win, store>>

NextRerun ==
    \/ /\ NoRunInHand
       /\ \E d \in RerunData :
            \E probs \in [1..Len(preprocess_default(d).X) -> RerunProbs] :
                RunBacktest(d, probs)
    \/ EvaluateStep
    \/ EvaluateFinish

SpecRerun == InitEval /\ [][NextRerun]_vars

(* the run before the one in hand ended, and was given the same table and  *)
(* the same probabilities                                                  *)
Earlier == out[1].earlier[1]

SameInputsAgain ==
    /\ out # None
    /\ out[1].earlier # None
    /\ Earlier.run.pc = "done"
    /\ Earlier.rows = out[1].rows
    /\ Earlier.probs = out[1].probs

(* C22: a backtest on the same table and the same probabilities as the run *)
(* before it, whatever the agent held when either of them started, ends    *)
(* with the same ledger, the same balance and position, and the same       *)
(* metrics.                                                                *)
C22_Determinism ==
    (Finished /\ SameInputsAgain) =>
        /\ bt.trades = Earlier.run.trades
        /\ bt.balance = Earlier.run.balance
        /\ bt.position = Earlier.run.position
        /\ Metrics = Earlier.metrics

(* the same table run twice, bought at 80 and sold at 100 both times, the  *)
(* first run on an agent without results, the second on their holder       *)
C22_Witness ==
    /\ Finished
    /\ SameInputsAgain
    /\ Len(bt.trades) = 2
    /\ Metrics.profit_loss = R(2500)
    /\ Earlier.run.trades = bt.trades


-----------------------------------------------------------------------------
(* Creating an agent and training it. *)

(* C23: after create_agent has returned success with an agent_id, a record *)
(* is persisted under that id, the agent can be loaded, and train_agent on *)
(* that id does not report the agent as not found.                         *)
C23_CreateThenTrain ==
    (Script("create_agent") /\ Succeeded) =>
        /\ store[Result.agent_id] # None
        /\ load_agent(Result.agent_id, store) # None
        /\ train_agent(Result.agent_id, Filler, store, Frac(3, 4), <<Frac(1, 25)>>).out
               # Failure("Agent not found")


-----------------------------------------------------------------------------
(* The ledger of a backtest run. *)

Ledger == bt.trades

(* what the pass in hand decides *)
PassBuys == Gt(At(bt.y_pred_prob, bt.i), Half) /\ ~Holding(bt.position)

PassSells == ~Gt(At(bt.y_pred_prob, bt.i), Half) /\ Holding(bt.position)

(* buy, sell, buy, ... from the first record on; realized profit/loss on   *)
(* the sells alone; at the end one buy more than sells exactly when the    *)
(* run ends holding.                                                       *)
LedgerAlternates ==
    Backtest =>
        /\ \A k \in 1..Len(Ledger) :
             /\ Ledger[k].action = (IF k % 2 = 1 THEN "buy" ELSE "sell")
             /\ "profit_loss" \in DOMAIN Ledger[k] <=> Ledger[k].action = "sell"
        /\ Finished =>
             Cardinality(Buys) - Cardinality(Sells) = (IF Holding(bt.position) THEN 1 ELSE 0)

(* nothing is taken from the ledger; a pass that buys or sells appends one *)
(* record at the price of the pass, any other step appends none; the       *)
(* profit of a sell is (price - price of the buy before it) * quantity.    *)
LedgerStep ==
    (Backtest /\ bt' # bt) =>
        /\ SubSeq(bt'.trades, 1, Len(Ledger)) = Ledger
        /\ IF bt.pc = "loop" /\ bt'.pc = "loop" /\ (PassBuys \/ PassSells)
           THEN /\ Len(bt'.trades) = Len(Ledger) + 1
                /\ Last(bt'.trades).price = At(bt.close, bt.i)
                /\ Last(bt'.trades).action = (IF PassBuys THEN "buy" ELSE "sell")
                /\ PassSells =>
                     Last(bt'.trades).profit_loss =
                         Mul(Sub(At(bt.close, bt.i), Last(Ledger).price),
                             bt.position[1].quantity)
           ELSE bt'.trades = Ledger

LedgerTimestamps ==
    Backtest =>
        \A k \in 1..Len(Ledger) - 1 : Ledger[k].timestamp < Ledger[k + 1].timestamp

(* C24: in every backtest run the ledger is append-only and alternates     *)
(* buy, sell, buy, ... starting with a buy; a record is appended on every  *)
(* executed buy and sell and on no other step; realized profit/loss is on  *)
(* the sell records alone and equals (sell price - preceding buy price) *  *)
(* quantity; buys minus sells is 1 if the run ends holding and 0           *)
(* otherwise; the timestamps of the records increase strictly.             *)
C24_LedgerShape ==
    /\ [](LedgerAlternates /\ LedgerTimestamps)
    /\ [][LedgerStep]_vars

(* the parts of C24 other than the timestamps *)
LedgerShapeUntimed == [](LedgerAlternates) /\ [][LedgerStep]_vars


-----------------------------------------------------------------------------
(* The ids of agents created without one. *)

(* the step is a create_agent call that returns success *)
Creates ==
    /\ out' # None
    /\ out'[1].op = "create_agent"
    /\ "success" \in DOMAIN out'[1].ret
    /\ out'[1].ret.success

(* C25: an agent created without an agent_id right after another one gets  *)
(* an agent_id, and with it a model directory, other than that agent's.    *)
C25_DistinctIds ==
    [][(Script("create_agent") /\ Succeeded /\ Creates) =>
          out'[1].ret.agent_id # Result.agent_id]_vars


-----------------------------------------------------------------------------
(* The backtest and the risk level. *)

(* the run in hand as an agent with risk level r takes it, in one call *)
RunAtRisk(r) ==
    evaluate_loop(evaluate_start([agent EXCEPT !.risk_level = r],
                                 out[1].rows, out[1].probs))

OtherRisks == RiskSet \ {agent.risk_level}

(* C26: a finished backtest has the ledger and the metrics that the run on *)
(* the same table and probabilities has at every other risk level, while   *)
(* for each other risk level there is a probability at which the live      *)
(* signal is not the one of the agent's risk level.                        *)
C26_RiskIndependent ==
    (Finished /\ out # None) =>
        \A r \in OtherRisks :
            /\ RunAtRisk(r).trades = bt.trades
            /\ evaluate_metrics(RunAtRisk(r)) = Metrics
            /\ \E p \in ProbGrid : signal_of(p, r) # signal_of(p, agent.risk_level)

(* a run that bought at probability 0.55, which the live rule of the same  *)
(* agent, at risk level 1, holds at                                        *)
C26_Witness ==
    /\ Finished
    /\ out # None
    /\ agent.risk_level = R(1)
    /\ Len(bt.trades) = 2
    /\ bt.y_pred_prob[1] = Frac(11, 20)
    /\ signal_of(bt.y_pred_prob[1], agent.risk_level) = "hold"
    /\ signal_of(bt.y_pred_prob[1], R(0)) = "buy"

====
